---- MODULE Spec2Model ----
(***************************************************************************)
(* qrpay: the QR generation pipeline (POST /generateQR -> queue -> worker  *)
(* -> record store) and the activation endpoint of src/index.js, as a      *)
(* state machine.  Every await of a handler is a step boundary: other      *)
(* handlers and the queue worker may run between two steps of a handler.   *)
(***************************************************************************)
EXTENDS Integers, Sequences, FiniteSets, TLC

\* ------------------------------------------------------------------ bounds
MaxGenReq == 1      \* POST /generateQR requests in flight
MaxActReq == 2      \* POST /activate requests in flight
MaxDelReq == 1      \* DELETE /qrCodes requests in flight
MaxListReq == 1     \* GET /generateQR requests in flight
NumWorkers == 2     \* jobs the queue hands to the processor at the same time
NumUuids == 2       \* distinct values uuidv4() can return in a run

\* ------------------------------------------------------- program constants
MAX_QR_COUNT == 100

GenReqs == 1..MaxGenReq
ActReqs == 1..MaxActReq
DelReqs == 1..MaxDelReq
ListReqs == 1..MaxListReq
Uuids == 1..NumUuids

\* req.body.count of POST /generateQR: <<>> is an absent count, <<n>> the number n
SmallCounts == {<<>>, <<2>>}
\* LightCounts ask for at most one job, HeavyCounts for more
LightCounts == {<<>>, <<-3>>, <<0>>, <<1>>}
HeavyCounts == {<<2>>, <<57>>, <<99>>, <<100>>, <<101>>, <<250>>}
WideCounts == LightCounts \cup HeavyCounts

\* the strings a field of the /activate body takes; "" stands for a missing
\* or empty field, the id 0 for a missing or empty id
Names == {"", "A", "B"}
Body(i, f, l, n) ==
  [id |-> i, firstName |-> f, lastName |-> l, accountNumber |-> n]
\* one body per missing field, and the complete bodies for every id
ActBodies ==
  {Body(0, "A", "A", "A"), Body(1, "", "A", "A"),
   Body(1, "A", "", "A"), Body(1, "A", "A", "")}
    \cup {Body(i, f, f, f) : i \in Uuids, f \in Names \ {""}}

\* what result.url of a successful upload can be
Urls == {"http://res.cloudinary.com/qr.png"}

VARIABLES
  genBody,    \* genBody[r]: req.body.count of generate request r
  genPc,      \* genPc[r]: "start", "loop" (at the for loop), "done"
  genI,       \* genI[r]: the loop variable i
  genMsg,     \* genMsg[r]: the number in the response message, <<>> before it
  jobs,       \* jobs[j]: every job ever added, by job id
  queue,      \* ids of the jobs waiting in the queue, oldest first
  minted,     \* the values uuidv4() has returned
  store,      \* the QRCode collection, in insertion order
  actBody,    \* actBody[a]: req.body of activate request a
  actPc,      \* actPc[a]: "start", "findOne", "updateOne", "done"
  actDoc,     \* actDoc[a]: _id of the document findOne returned, 0 if none
  actResp,    \* actResp[a]: HTTP status answered, 0 before the answer
  actPrior,   \* actPrior[a]: the requests answered before a arrived
  delPc,      \* delPc[d]: "start", "done"
  delCount,   \* delCount[d]: deletedCount answered
  delResp,    \* delResp[d]: HTTP status answered, 0 before the answer
  listing     \* listing[l]: the locals and the answer of list request l

vars == <<genBody, genPc, genI, genMsg, jobs, queue, minted, store,
          actBody, actPc, actDoc, actResp, actPrior, delPc, delCount,
          delResp, listing>>

genVars == <<genBody, genPc, genI, genMsg>>
actVars == <<actBody, actPc, actDoc, actResp, actPrior>>
delVars == <<delPc, delCount, delResp>>

\* ------------------------------------------------------------ POST /generateQR
Min(a, b) == IF a < b THEN a ELSE b

\* req.body.count || 1 : an absent count and 0 are falsy
OrOne(c) == IF c = <<>> \/ c[1] = 0 THEN 1 ELSE c[1]

\* the cap left out
ClampCountNoCap(c) == OrOne(c)

\* const count = Math.min(req.body.count || 1, MAX_QR_COUNT)
ClampCount(c) == Min(OrOne(c), MAX_QR_COUNT)

\* the loop test i < count
LoopTest(i, count) == i < count

\* steps lists the pipeline steps of the job that have succeeded, in order;
\* settle is how the processor's promise ended ("none" while it has not) and
\* result the value it resolved with, <<>> for undefined
NewJob(r) == [req |-> r, stage |-> "waiting", uuid |-> 0, url |-> "",
              outcome |-> "none", steps |-> <<>>, settle |-> "none",
              result |-> <<>>]

\* qrQueue.add({}): the job is appended to the queue
QueueAdd(r) ==
  /\ jobs' = Append(jobs, NewJob(r))
  /\ queue' = Append(queue, Len(jobs) + 1)

GenStart(r) ==
  /\ genPc[r] = "start"
  /\ genPc' = [genPc EXCEPT ![r] = "loop"]
  /\ genI' = [genI EXCEPT ![r] = 0]
  /\ UNCHANGED <<genBody, genMsg, jobs, queue, minted, store>>
  /\ UNCHANGED <<actVars, delVars, listing>>

GenAdd(r) ==
  /\ genPc[r] = "loop"
  /\ LoopTest(genI[r], ClampCount(genBody[r]))
  /\ QueueAdd(r)
  /\ genI' = [genI EXCEPT ![r] = @ + 1]
  /\ UNCHANGED <<genBody, genPc, genMsg, minted, store>>
  /\ UNCHANGED <<actVars, delVars, listing>>

\* the answer held back until the request's jobs have been processed
RespondReadyAfterJobs(r) ==
  /\ ~LoopTest(genI[r], ClampCount(genBody[r]))
  /\ \A j \in DOMAIN jobs : jobs[j].req = r => jobs[j].stage = "done"

\* whether res.json may be called: the loop is over
RespondReady(r) == ~LoopTest(genI[r], ClampCount(genBody[r]))

GenRespond(r) ==
  /\ genPc[r] = "loop"
  /\ RespondReady(r)
  /\ genMsg' = [genMsg EXCEPT ![r] = <<ClampCount(genBody[r])>>]
  /\ genPc' = [genPc EXCEPT ![r] = "done"]
  /\ UNCHANGED <<genBody, genI, jobs, queue, minted, store>>
  /\ UNCHANGED <<actVars, delVars, listing>>

\* ------------------------------------------------------------ qrQueue.process
Active ==
  {j \in DOMAIN jobs : jobs[j].stage \in {"render", "upload", "save", "hung"}}

\* what the queue reports for a job: failed when the processor's promise
\* rejected, completed when it resolved
JobStatus(j) ==
  IF jobs[j].settle = "rejected" THEN "failed"
  ELSE IF jobs[j].settle = "resolved" THEN "completed"
  ELSE IF jobs[j].stage = "waiting" THEN "waiting"
  ELSE "active"

\* a delivery that leaves the job in the queue
QueueTakeKeepsJob ==
  /\ queue # <<>>
  /\ Cardinality(Active) < NumWorkers
  /\ queue' = queue

\* the queue hands over its oldest job while a processor slot is free
QueueTake ==
  /\ queue # <<>>
  /\ Cardinality(Active) < NumWorkers
  /\ queue' = Tail(queue)

\* an identifier source that can repeat a value
MintAny == Uuids

\* uuidv4(): a value it has not returned before
MintChoices == Uuids \ minted

\* the catch block: the error is logged and the callback returns undefined
Caught(j, err) ==
  jobs' = [jobs EXCEPT ![j].stage = "done", ![j].outcome = err,
                       ![j].settle = "resolved", ![j].result = <<>>]

\* new QRCodeModel({ uuid, s3URL: cloudinaryLink }) with the schema defaults
NewRecord(j) ==
  [oid |-> j, uuid |-> jobs[j].uuid, s3URL |-> jobs[j].url,
   firstName |-> "", lastName |-> "", accountNumber |-> "",
   isActivated |-> FALSE]

\* the queue hands its oldest job to the processor, which mints the uuid and
\* starts rendering
Dequeue ==
  /\ QueueTake
  /\ \E u \in MintChoices :
       /\ jobs' = [jobs EXCEPT ![Head(queue)].stage = "render",
                               ![Head(queue)].uuid = u]
       /\ minted' = minted \cup {u}
  /\ UNCHANGED <<genVars, store, actVars, delVars, listing>>

RenderOk(j) ==
  /\ jobs[j].stage = "render"
  /\ jobs' = [jobs EXCEPT ![j].stage = "upload",
                          ![j].steps = Append(@, "render")]
  /\ UNCHANGED <<genVars, queue, minted, store, actVars, delVars, listing>>

RenderFail(j) ==
  /\ jobs[j].stage = "render"
  /\ Caught(j, "renderError")
  /\ UNCHANGED <<genVars, queue, minted, store, actVars, delVars, listing>>

UploadOk(j) ==
  /\ jobs[j].stage = "upload"
  /\ \E u \in Urls :
       jobs' = [jobs EXCEPT ![j].stage = "save", ![j].url = u,
                               ![j].steps = Append(@, "upload")]
  /\ UNCHANGED <<genVars, queue, minted, store, actVars, delVars, listing>>

\* the upload error swallowed inside the pipeline: the job goes on to save
UploadFailGoesOn(j) ==
  /\ jobs[j].stage = "upload"
  /\ jobs' = [jobs EXCEPT ![j].stage = "save"]
  /\ UNCHANGED <<genVars, queue, minted, store, actVars, delVars, listing>>

\* upload_stream never calls back: the promise of uploadToCloudinary never
\* settles, and the job keeps its processor slot
UploadHang(j) ==
  /\ jobs[j].stage = "upload"
  /\ jobs' = [jobs EXCEPT ![j].stage = "hung"]
  /\ UNCHANGED <<genVars, queue, minted, store, actVars, delVars, listing>>

UploadFail(j) ==
  /\ jobs[j].stage = "upload"
  /\ Caught(j, "uploadError")
  /\ UNCHANGED <<genVars, queue, minted, store, actVars, delVars, listing>>

SaveOk(j) ==
  /\ jobs[j].stage = "save"
  /\ store' = Append(store, NewRecord(j))
  /\ jobs' = [jobs EXCEPT ![j].stage = "done", ![j].outcome = "saved",
                          ![j].steps = Append(@, "save"),
                          ![j].settle = "resolved",
                          ![j].result = <<jobs[j].uuid, jobs[j].url>>]
  /\ UNCHANGED <<genVars, queue, minted, actVars, delVars, listing>>

SaveFail(j) ==
  /\ jobs[j].stage = "save"
  /\ Caught(j, "saveError")
  /\ UNCHANGED <<genVars, queue, minted, store, actVars, delVars, listing>>

\* --------------------------------------------------------------- POST /activate
\* the check with id forgotten
MissingFieldNoId(b) ==
  b.firstName = "" \/ b.lastName = "" \/ b.accountNumber = ""

\* the check with accountNumber forgotten
MissingFieldNoAccount(b) ==
  b.id = 0 \/ b.firstName = "" \/ b.lastName = ""

\* !id || !firstName || !lastName || !accountNumber
MissingField(b) ==
  b.id = 0 \/ b.firstName = "" \/ b.lastName = "" \/ b.accountNumber = ""

\* QRCodeModel.findOne({ uuid: id }): the position of the first match, 0 if none
FindOne(s, id) ==
  IF \E i \in DOMAIN s : s[i].uuid = id
    THEN CHOOSE i \in DOMAIN s :
           /\ s[i].uuid = id
           /\ \A k \in DOMAIN s : s[k].uuid = id => i <= k
    ELSE 0

\* the update with only the flag
ActivatedFlagOnly(rec, b) == [rec EXCEPT !.isActivated = TRUE]

\* the update with the flag flipped instead of set
ActivatedFlip(rec, b) ==
  [rec EXCEPT !.isActivated = ~@, !.firstName = b.firstName,
              !.lastName = b.lastName, !.accountNumber = b.accountNumber]

\* the update of qrModel.updateOne applied to one document
Activated(rec, b) ==
  [rec EXCEPT !.isActivated = TRUE, !.firstName = b.firstName,
              !.lastName = b.lastName, !.accountNumber = b.accountNumber]

\* an update that matches every document
UpdateEvery(s, oid, b) == [i \in DOMAIN s |-> Activated(s[i], b)]

\* qrModel.updateOne({...}): the document with qrModel's _id, if still stored
UpdateOne(s, oid, b) ==
  [i \in DOMAIN s |-> IF s[i].oid = oid THEN Activated(s[i], b) ELSE s[i]]

Answered == {a \in ActReqs : actPc[a] = "done"}

ActStart(a) ==
  /\ actPc[a] = "start"
  /\ \E b \in ActBodies :
       /\ actBody' = [actBody EXCEPT ![a] = b]
       /\ IF MissingField(b)
            THEN /\ actPc' = [actPc EXCEPT ![a] = "done"]
                 /\ actResp' = [actResp EXCEPT ![a] = 400]
            ELSE /\ actPc' = [actPc EXCEPT ![a] = "findOne"]
                 /\ actResp' = actResp
  /\ actPrior' = [actPrior EXCEPT ![a] = Answered]
  /\ UNCHANGED <<genVars, jobs, queue, minted, store, actDoc, delVars, listing>>

\* a lookup that inserts the document it does not find
ActFindOneUpsert(a) ==
  /\ actPc[a] = "findOne"
  /\ IF FindOne(store, actBody[a].id) = 0
       THEN /\ store' = Append(store,
                    [oid |-> Len(jobs) + a, uuid |-> actBody[a].id,
                     s3URL |-> "", firstName |-> "", lastName |-> "",
                     accountNumber |-> "", isActivated |-> FALSE])
            /\ actPc' = [actPc EXCEPT ![a] = "updateOne"]
            /\ actDoc' = [actDoc EXCEPT ![a] = Len(jobs) + a]
       ELSE /\ store' = store
            /\ actPc' = [actPc EXCEPT ![a] = "updateOne"]
            /\ actDoc' = [actDoc EXCEPT ![a] =
                            store[FindOne(store, actBody[a].id)].oid]
  /\ UNCHANGED <<genVars, jobs, queue, minted, actBody, actResp, actPrior,
                 delVars, listing>>

ActFindOne(a) ==
  /\ actPc[a] = "findOne"
  /\ IF FindOne(store, actBody[a].id) = 0
       THEN /\ actPc' = [actPc EXCEPT ![a] = "done"]
            /\ actResp' = [actResp EXCEPT ![a] = 404]
            /\ actDoc' = actDoc
       ELSE /\ actPc' = [actPc EXCEPT ![a] = "updateOne"]
            /\ actDoc' = [actDoc EXCEPT ![a] =
                            store[FindOne(store, actBody[a].id)].oid]
            /\ actResp' = actResp
  /\ UNCHANGED <<genVars, jobs, queue, minted, store, actBody, actPrior,
                 delVars, listing>>

ActUpdateOne(a) ==
  /\ actPc[a] = "updateOne"
  /\ store' = UpdateOne(store, actDoc[a], actBody[a])
  /\ actPc' = [actPc EXCEPT ![a] = "done"]
  /\ actResp' = [actResp EXCEPT ![a] = 200]
  /\ UNCHANGED <<genVars, jobs, queue, minted, actBody, actDoc, actPrior,
                 delVars, listing>>

\* findOne or updateOne rejects: the catch block answers 500
ActError(a) ==
  /\ actPc[a] \in {"findOne", "updateOne"}
  /\ actPc' = [actPc EXCEPT ![a] = "done"]
  /\ actResp' = [actResp EXCEPT ![a] = 500]
  /\ UNCHANGED <<genVars, jobs, queue, minted, store, actBody, actDoc,
                 actPrior, delVars, listing>>

\* -------------------------------------------------------------- GET /generateQR
\* req.query.page and req.query.limit: <<>> is an absent parameter, <<n>> the
\* text of the number n
Pages == {<<>>, <<-1>>, <<0>>, <<1>>, <<2>>, <<3>>}
Limits == {<<>>, <<-2>>, <<0>>, <<2>>, <<10>>}

\* the handler's locals before it runs; afterDel tells whether a DELETE had
\* been answered 200 when the request arrived
NewListing ==
  [pc |-> "start", query |-> [page |-> <<>>, limit |-> <<>>], page |-> 0,
   limit |-> 0, qr |-> <<>>, totalDocs |-> 0, totalPages |-> 0, resp |-> 0,
   afterDel |-> FALSE]

Abs(n) == IF n < 0 THEN -n ELSE n

\* parseInt(x) || d: an absent parameter parses to NaN; NaN and 0 are falsy
OrDefault(q, d) == IF q = <<>> \/ q[1] = 0 THEN d ELSE q[1]

\* the skip taken one page too far
SkipOfNextPage(page, limit) == page * limit

\* (page - 1) * limit
SkipOf(page, limit) == (page - 1) * limit

\* Math.ceil(a / b) for a >= 0 and b # 0
CeilDiv(a, b) == IF b > 0 THEN (a + b - 1) \div b ELSE -(a \div (-b))

\* find({}).limit(limit).skip(skip) with skip >= 0: the documents after the
\* first skip ones, in the collection's order; a negative limit asks for as
\* many documents as the positive one, in a single batch
FindPage(s, skip, limit) ==
  SubSeq(s, skip + 1, Min(Len(s), skip + Abs(limit)))

\* countDocuments()
CountDocuments(s) == Len(s)

ListStart(l) ==
  /\ listing[l].pc = "start"
  /\ \E pg \in Pages, lm \in Limits :
       listing' = [listing EXCEPT ![l] =
                     [@ EXCEPT !.pc = "find",
                               !.query = [page |-> pg, limit |-> lm],
                               !.page = OrDefault(pg, 1),
                               !.limit = OrDefault(lm, 10),
                               !.afterDel = \E d \in DelReqs : delResp[d] = 200]]
  /\ UNCHANGED <<genVars, jobs, queue, minted, store, actVars, delVars>>

\* the find resolves, or rejects because the store refuses a negative skip
ListFind(l) ==
  /\ listing[l].pc = "find"
  /\ IF SkipOf(listing[l].page, listing[l].limit) < 0
       THEN listing' = [listing EXCEPT ![l] =
                          [@ EXCEPT !.pc = "done", !.resp = 500]]
       ELSE listing' = [listing EXCEPT ![l] =
                          [@ EXCEPT !.pc = "count",
                                    !.qr = FindPage(store,
                                             SkipOf(listing[l].page,
                                                    listing[l].limit),
                                             listing[l].limit)]]
  /\ UNCHANGED <<genVars, jobs, queue, minted, store, actVars, delVars>>

ListCount(l) ==
  /\ listing[l].pc = "count"
  /\ listing' = [listing EXCEPT ![l] =
                   [@ EXCEPT !.pc = "done", !.resp = 200,
                             !.totalDocs = CountDocuments(store),
                             !.totalPages = CeilDiv(CountDocuments(store),
                                                    listing[l].limit)]]
  /\ UNCHANGED <<genVars, jobs, queue, minted, store, actVars, delVars>>

\* find or countDocuments rejects: the catch block answers 500
ListError(l) ==
  /\ listing[l].pc \in {"find", "count"}
  /\ listing' = [listing EXCEPT ![l] = [@ EXCEPT !.pc = "done", !.resp = 500]]
  /\ UNCHANGED <<genVars, jobs, queue, minted, store, actVars, delVars>>

\* -------------------------------------------------------------- DELETE /qrCodes
\* deleteOne in place of deleteMany
DeleteFirstOnly(d) ==
  /\ delPc[d] = "start"
  /\ store' = IF store = <<>> THEN <<>> ELSE Tail(store)
  /\ delCount' = [delCount EXCEPT ![d] = IF store = <<>> THEN 0 ELSE 1]
  /\ delResp' = [delResp EXCEPT ![d] = 200]
  /\ delPc' = [delPc EXCEPT ![d] = "done"]
  /\ UNCHANGED <<genVars, jobs, queue, minted, actVars, listing>>

DeleteAll(d) ==
  /\ delPc[d] = "start"
  /\ store' = <<>>
  /\ delCount' = [delCount EXCEPT ![d] = Len(store)]
  /\ delResp' = [delResp EXCEPT ![d] = 200]
  /\ delPc' = [delPc EXCEPT ![d] = "done"]
  /\ UNCHANGED <<genVars, jobs, queue, minted, actVars, listing>>

\* deleteMany rejects: the catch block answers 500
DelError(d) ==
  /\ delPc[d] = "start"
  /\ delResp' = [delResp EXCEPT ![d] = 500]
  /\ delPc' = [delPc EXCEPT ![d] = "done"]
  /\ UNCHANGED <<genVars, jobs, queue, minted, store, actVars, delCount,
                 listing>>

\* ------------------------------------------------------------- specifications
InitReqs ==
  /\ genPc = [r \in GenReqs |-> "start"]
  /\ genI = [r \in GenReqs |-> 0]
  /\ genMsg = [r \in GenReqs |-> <<>>]
  /\ jobs = <<>>
  /\ queue = <<>>
  /\ minted = {}
  /\ actBody = [a \in ActReqs |-> Body(0, "", "", "")]
  /\ actPc = [a \in ActReqs |-> "start"]
  /\ actDoc = [a \in ActReqs |-> 0]
  /\ actResp = [a \in ActReqs |-> 0]
  /\ actPrior = [a \in ActReqs |-> {}]
  /\ delPc = [d \in DelReqs |-> "start"]
  /\ delCount = [d \in DelReqs |-> 0]
  /\ delResp = [d \in DelReqs |-> 0]
  /\ listing = [l \in ListReqs |-> NewListing]

InitRest ==
  /\ InitReqs
  /\ store = <<>>

Init ==
  /\ genBody \in [GenReqs -> SmallCounts]
  /\ InitRest

Next ==
  \/ \E r \in GenReqs : GenStart(r)
  \/ \E r \in GenReqs : GenAdd(r)
  \/ \E r \in GenReqs : GenRespond(r)
  \/ Dequeue
  \/ \E j \in DOMAIN jobs : RenderOk(j)
  \/ \E j \in DOMAIN jobs : RenderFail(j)
  \/ \E j \in DOMAIN jobs : UploadOk(j)
  \/ \E j \in DOMAIN jobs : UploadFail(j)
  \/ \E j \in DOMAIN jobs : SaveOk(j)
  \/ \E j \in DOMAIN jobs : SaveFail(j)
  \/ \E a \in ActReqs : ActStart(a)
  \/ \E a \in ActReqs : ActFindOne(a)
  \/ \E a \in ActReqs : ActUpdateOne(a)
  \/ \E a \in ActReqs : ActError(a)
  \/ \E d \in DelReqs : DeleteAll(d)
  \/ \E d \in DelReqs : DelError(d)

Spec == Init /\ [][Next]_vars

\* POST /generateQR alone, over the whole range of count; of the requests in
\* flight together at most one asks for more than one job
InitGen ==
  /\ genBody \in [GenReqs -> WideCounts]
  /\ Cardinality({r \in GenReqs : genBody[r] \in HeavyCounts}) <= 1
  /\ InitRest

NextGen ==
  \/ \E r \in GenReqs : GenStart(r)
  \/ \E r \in GenReqs : GenAdd(r)
  \/ \E r \in GenReqs : GenRespond(r)

SpecGen == InitGen /\ [][NextGen]_vars

\* the generation pipeline with an upload that may never call back; every
\* step that can be taken is taken eventually (promises that settle run their
\* continuations, the queue delivers while a slot is free)
JobIds == 1..(2 * MaxGenReq)

NextLive ==
  \/ \E r \in GenReqs : GenStart(r)
  \/ \E r \in GenReqs : GenAdd(r)
  \/ \E r \in GenReqs : GenRespond(r)
  \/ Dequeue
  \/ \E j \in DOMAIN jobs : RenderOk(j)
  \/ \E j \in DOMAIN jobs : RenderFail(j)
  \/ \E j \in DOMAIN jobs : UploadOk(j)
  \/ \E j \in DOMAIN jobs : UploadFail(j)
  \/ \E j \in DOMAIN jobs : UploadHang(j)
  \/ \E j \in DOMAIN jobs : SaveOk(j)
  \/ \E j \in DOMAIN jobs : SaveFail(j)

SpecLive == Init /\ [][NextLive]_vars /\ WF_vars(NextLive)

\* the collection outlives the process: the store a new process finds holds
\* the records earlier jobs saved, in the order they were saved
StoreSizes == {0, 3, 25}
SeedStore(n) ==
  [k \in 1..n |->
     [oid |-> k, uuid |-> k, s3URL |-> CHOOSE u \in Urls : TRUE,
      firstName |-> "", lastName |-> "", accountNumber |-> "",
      isActivated |-> FALSE]]

\* GET /generateQR and DELETE /qrCodes over a stored collection
InitList ==
  /\ genBody = [r \in GenReqs |-> <<>>]
  /\ InitReqs
  /\ store \in {SeedStore(n) : n \in StoreSizes}

NextList ==
  \/ \E l \in ListReqs : ListStart(l)
  \/ \E l \in ListReqs : ListFind(l)
  \/ \E l \in ListReqs : ListCount(l)
  \/ \E l \in ListReqs : ListError(l)
  \/ \E d \in DelReqs : DeleteAll(d)
  \/ \E d \in DelReqs : DelError(d)

SpecList == InitList /\ [][NextList]_vars

\* the generation pipeline: the handler's steps are taken whenever they can
\* be (Node runs a handler's continuation once its await settles); nothing
\* is assumed about when, or whether, the queue's processor runs
NextPipe ==
  \/ \E r \in GenReqs : GenStart(r)
  \/ \E r \in GenReqs : GenAdd(r)
  \/ \E r \in GenReqs : GenRespond(r)
  \/ Dequeue
  \/ \E j \in DOMAIN jobs : RenderOk(j)
  \/ \E j \in DOMAIN jobs : RenderFail(j)
  \/ \E j \in DOMAIN jobs : UploadOk(j)
  \/ \E j \in DOMAIN jobs : UploadFail(j)
  \/ \E j \in DOMAIN jobs : SaveOk(j)
  \/ \E j \in DOMAIN jobs : SaveFail(j)

SpecPipe ==
  /\ Init
  /\ [][NextPipe]_vars
  /\ \A r \in GenReqs : WF_vars(GenStart(r) \/ GenAdd(r) \/ GenRespond(r))

\* ===================================================================== claims
JobsAddedBy(r) == Cardinality({j \in DOMAIN jobs : jobs[j].req = r})

RecordsWith(id) == {i \in DOMAIN store : store[i].uuid = id}

NoneEmpty(rec) ==
  rec.firstName # "" /\ rec.lastName # "" /\ rec.accountNumber # ""

AllEmpty(rec) ==
  rec.firstName = "" /\ rec.lastName = "" /\ rec.accountNumber = ""

\* a's findOne/updateOne ran while b's request was still open, and conversely
Concurrent(a, b) == a \notin actPrior[b] /\ b \notin actPrior[a]

\* C1: a POST /generateQR request never adds more jobs than its count asks
\* for, and once it has answered it has added exactly count jobs for a count
\* in 1..100, exactly 100 for a count above 100, exactly 1 for an absent count.
C1_ExactJobCount ==
  \A r \in GenReqs :
    LET c == genBody[r]
        want == IF c = <<>> THEN 1 ELSE IF c[1] > 100 THEN 100 ELSE c[1]
    IN  (c = <<>> \/ c[1] >= 1) =>
          /\ JobsAddedBy(r) <= want
          /\ genPc[r] = "done" => JobsAddedBy(r) = want

C1_Witness ==
  \E r \in GenReqs :
    /\ genPc[r] = "done"
    /\ genBody[r] = <<250>>
    /\ JobsAddedBy(r) = 100

\* C2: the records in the store have pairwise distinct ids and a non-empty
\* imageURL, each job has at most one record, and no two jobs that completed
\* successfully were given the same id.
C2_UniqueIds ==
  /\ \A i, k \in DOMAIN store :
       i # k => store[i].uuid # store[k].uuid /\ store[i].oid # store[k].oid
  /\ \A i \in DOMAIN store : store[i].s3URL # ""
  /\ \A j, k \in DOMAIN jobs :
       (j # k /\ jobs[j].outcome = "saved" /\ jobs[k].outcome = "saved")
         => jobs[j].uuid # jobs[k].uuid

C2_Witness ==
  /\ Len(store) = 2
  /\ \A j \in DOMAIN jobs : jobs[j].outcome = "saved"

\* C3: two activation requests for the same existing id that overlap in time
\* never both get the success answer.
C3_AtMostOneSucceeds ==
  \A a, b \in ActReqs :
    (a # b /\ Concurrent(a, b) /\ actBody[a].id = actBody[b].id)
      => ~(actResp[a] = 200 /\ actResp[b] = 200)

\* C4: when an activate call succeeds on an id for which an earlier call, already
\* answered before this one arrived, had succeeded, the record is left exactly
\* as it was (the other allowed outcome being that the second call is rejected).
C4_RejectOrIdempotent ==
  [][\A b \in ActReqs :
       (/\ actPc[b] = "updateOne"
        /\ actResp'[b] = 200
        /\ \E a \in actPrior[b] :
             actResp[a] = 200 /\ actBody[a].id = actBody[b].id)
         => store' = store]_vars

\* C5: for every record of the store, the three identity fields are all empty
\* exactly when isActivated is false, and none of them is empty when it is true.
C5_IdentityIffActivated ==
  \A i \in DOMAIN store :
    /\ AllEmpty(store[i]) <=> ~store[i].isActivated
    /\ store[i].isActivated => NoneEmpty(store[i])

C5_Witness ==
  \E i, k \in DOMAIN store :
    /\ store[i].isActivated /\ store[i].firstName = "A"
    /\ ~store[k].isActivated

\* C6: in every step, a record that has isActivated true and is still in the
\* store after the step still has isActivated true.
C6_ActivatedMonotonic ==
  [][\A i \in DOMAIN store : \A k \in DOMAIN store' :
       (store[i].isActivated /\ store'[k].oid = store[i].oid)
         => store'[k].isActivated]_vars

C6_Witness ==
  \E i \in DOMAIN store : \E a, b \in ActReqs :
    /\ store[i].isActivated
    /\ a \in actPrior[b]
    /\ actResp[a] = 200 /\ actResp[b] = 200
    /\ actDoc[a] = store[i].oid /\ actDoc[b] = store[i].oid

\* C7: a record enters the store only by the save of a generation job, with
\* isActivated false, and a record's isActivated goes from false to true only in
\* the update step of an activate request for that record whose id, firstName,
\* lastName and accountNumber are all non-empty.
C7_ActivationOnlyByFullRequest ==
  [][/\ \A k \in DOMAIN store' :
          (\A i \in DOMAIN store : store[i].oid # store'[k].oid)
            => /\ ~store'[k].isActivated
               /\ store'[k].oid \in DOMAIN jobs
               /\ jobs[store'[k].oid].stage = "save"
               /\ jobs'[store'[k].oid].stage = "done"
     /\ \A i \in DOMAIN store : \A k \in DOMAIN store' :
          (/\ store'[k].oid = store[i].oid
           /\ ~store[i].isActivated
           /\ store'[k].isActivated)
            => \E a \in ActReqs :
                 /\ actPc[a] = "updateOne" /\ actPc'[a] = "done"
                 /\ actDoc[a] = store[i].oid
                 /\ actBody[a].id = store[i].uuid
                 /\ actBody[a].id # 0
                 /\ NoneEmpty(actBody[a])]_vars

C7_Witness ==
  \E i \in DOMAIN store : \E a \in ActReqs :
    /\ store[i].isActivated /\ store[i].lastName = "B"
    /\ actResp[a] = 200 /\ actDoc[a] = store[i].oid
    /\ \E b \in ActReqs : actResp[b] = 400

\* C8: when the lookup of an activate request finds no record with the
\* request's id (and the store did not fail), the request is answered 404 and
\* ends, and the store is left as it was.
C8_UnknownIdNotFound ==
  [][\A a \in ActReqs :
       (/\ actPc[a] = "findOne"
        /\ actPc'[a] # "findOne"
        /\ RecordsWith(actBody[a].id) = {}
        /\ actResp'[a] # 500)
         => /\ actResp'[a] = 404
            /\ actPc'[a] = "done"
            /\ store' = store]_vars

C8_Witness ==
  \E a \in ActReqs :
    /\ actResp[a] = 404
    /\ store # <<>>
    /\ RecordsWith(actBody[a].id) = {}

\* C9: a record enters the store only in the save step of a job whose render
\* and then upload have succeeded, carrying the uploaded URL; a job that has
\* ended in its catch block takes no further step, so a job whose render or
\* upload failed never adds a record.
C9_PersistOnlyAfterRenderAndUpload ==
  [][/\ \A k \in DOMAIN store' :
          (\A i \in DOMAIN store : store[i].oid # store'[k].oid)
            => /\ store'[k].oid \in DOMAIN jobs
               /\ jobs[store'[k].oid].steps = <<"render", "upload">>
               /\ jobs[store'[k].oid].outcome = "none"
               /\ store'[k].s3URL = jobs[store'[k].oid].url
               /\ store'[k].s3URL \in Urls
     /\ \A j \in DOMAIN jobs :
          jobs[j].outcome \in {"renderError", "uploadError", "saveError"}
            => jobs'[j] = jobs[j]
     /\ Len(store') > Len(store) => Len(store') = Len(store) + 1]_vars

C9_Witness ==
  \E j, k \in DOMAIN jobs :
    /\ jobs[j].outcome = "uploadError"
    /\ jobs[k].outcome = "saved"
    /\ Len(store) = 1 /\ store[1].oid = k

\* C10: every POST /generateQR request is eventually answered, whether or not
\* the queue's processor ever takes a job.
C10_AnswersWithoutWorker ==
  \A r \in GenReqs : <>(genPc[r] = "done" /\ genMsg[r] # <<>>)

C10_Witness ==
  \E r \in GenReqs :
    /\ genPc[r] = "done"
    /\ JobsAddedBy(r) = 2
    /\ \A j \in DOMAIN jobs : jobs[j].stage = "waiting"

\* C11: for a request with page p >= 1 and limit n >= 1, the find step returns
\* the records at positions (p-1)*n+1 .. p*n of the store, in the store's
\* order (fewer when the store ends earlier), and the answer carries them
\* with totalDocs, the number of records counted, and totalPages, the least
\* number of pages of n records that hold totalDocs records.
C11_PageSlice ==
  [][\A l \in ListReqs :
       LET q == listing[l].query IN
       (q.page # <<>> /\ q.limit # <<>> /\ q.page[1] >= 1 /\ q.limit[1] >= 1)
         => LET p == q.page[1]
                n == q.limit[1]
                got == listing'[l].qr
                left == Len(store) - (p - 1) * n
            IN  /\ (listing[l].pc = "find" /\ listing'[l].pc = "count")
                     => /\ Len(got) = IF left < 0 THEN 0 ELSE Min(n, left)
                        /\ \A k \in 1..Len(got) : got[k] = store[(p - 1) * n + k]
                /\ (listing[l].pc = "count" /\ listing'[l].resp = 200)
                     => /\ got = listing[l].qr
                        /\ listing'[l].totalDocs = Len(store)
                        /\ listing'[l].totalPages * n >= Len(store)
                        /\ (listing'[l].totalPages - 1) * n < Len(store)
                        /\ listing'[l].totalPages >= 0]_vars

C11_Witness ==
  \E l \in ListReqs :
    /\ listing[l].resp = 200
    /\ listing[l].query = [page |-> <<2>>, limit |-> <<10>>]
    /\ Len(listing[l].qr) = 10
    /\ listing[l].qr[1].oid = 11 /\ listing[l].qr[10].oid = 20
    /\ listing[l].totalDocs = 25 /\ listing[l].totalPages = 3

\* C12: once a list request has read its parameters, page is 1 when the page
\* supplied is absent, zero or negative, limit is 10 when the limit supplied
\* is absent, zero or negative, and neither the skip nor the limit it passes
\* to the store is negative.
C12_SafeDefaults ==
  \A l \in ListReqs :
    listing[l].pc # "start" =>
      LET q == listing[l].query IN
      /\ (q.page = <<>> \/ q.page[1] <= 0) => listing[l].page = 1
      /\ (q.limit = <<>> \/ q.limit[1] <= 0) => listing[l].limit = 10
      /\ SkipOf(listing[l].page, listing[l].limit) >= 0
      /\ listing[l].limit >= 0

\* C13: a DELETE /qrCodes that answers 200 reports as deletedCount the number
\* of records the store held and leaves the store empty, and a listing that
\* arrived after such an answer returns no record and totalDocs = 0 (no job
\* saves a record in between).
C13_DeleteAllThenEmpty ==
  [][/\ \A d \in DelReqs :
          (delPc[d] = "start" /\ delResp'[d] = 200)
            => delCount'[d] = Len(store) /\ store' = <<>>
     /\ \A l \in ListReqs :
          (listing'[l].afterDel /\ listing'[l].pc \in {"count", "done"})
            => listing'[l].qr = <<>>
     /\ \A l \in ListReqs :
          (listing'[l].afterDel /\ listing'[l].resp = 200)
            => listing'[l].totalDocs = 0 /\ listing'[l].totalPages = 0]_vars

C13_Witness ==
  \E d \in DelReqs : \E l \in ListReqs :
    /\ delResp[d] = 200 /\ delCount[d] = 25
    /\ listing[l].afterDel /\ listing[l].resp = 200
    /\ listing[l].qr = <<>> /\ listing[l].totalDocs = 0

\* C14: an activate request with an empty or missing id, firstName, lastName
\* or accountNumber is answered 400 at once, whether or not a record has its
\* id, and changes no record; a complete request whose lookup finds no record
\* is answered 404 and changes no record; a record is changed only by the
\* update step of a complete request whose lookup found a record with its id.
C14_ValidationOutcomes ==
  [][/\ \A a \in ActReqs :
          (actPc[a] = "start" /\ actPc'[a] # "start")
            => /\ store' = store
               /\ IF \/ actBody'[a].id = 0
                     \/ actBody'[a].firstName = ""
                     \/ actBody'[a].lastName = ""
                     \/ actBody'[a].accountNumber = ""
                    THEN actResp'[a] = 400 /\ actPc'[a] = "done"
                    ELSE actResp'[a] = 0 /\ actPc'[a] = "findOne"
     /\ \A a \in ActReqs :
          (actPc[a] = "findOne" /\ actPc'[a] # "findOne" /\ actResp'[a] # 500)
            => /\ store' = store
               /\ IF RecordsWith(actBody[a].id) = {}
                    THEN actResp'[a] = 404 /\ actPc'[a] = "done"
                    ELSE actResp'[a] = 0 /\ actPc'[a] = "updateOne"
     /\ \A a \in ActReqs :
          actResp[a] \in {400, 404}
            => actPc'[a] = "done" /\ actResp'[a] = actResp[a]
     /\ \A i \in DOMAIN store : \A k \in DOMAIN store' :
          (store'[k].oid = store[i].oid /\ store'[k] # store[i])
            => \E a \in ActReqs :
                 /\ actPc[a] = "updateOne" /\ actResp'[a] = 200
                 /\ actBody[a].id = store[i].uuid
                 /\ actDoc[a] = store[i].oid
                 /\ actBody[a].id # 0 /\ NoneEmpty(actBody[a])]_vars

C14_Witness ==
  \E a, b \in ActReqs :
    /\ actResp[a] = 400
    /\ RecordsWith(actBody[a].id) # {}
    /\ actResp[b] = 200
    /\ \E i \in DOMAIN store : store[i].oid = actDoc[b] /\ store[i].isActivated

Failed(j) == jobs[j].outcome \in {"renderError", "uploadError", "saveError"}

InQueue(j) == \E q \in DOMAIN queue : queue[q] = j

StageRank(st) ==
  CASE st = "waiting" -> 0
    [] st = "render" -> 1
    [] st = "upload" -> 2
    [] st = "save" -> 3
    [] OTHER -> 4

\* C15: a job whose render, upload or save failed is reported as failed, is
\* not back in the queue and has no record; a job is reported as completed
\* with a result {id, imageURL} only when its record with that id and
\* imageURL was saved.
C15_FailureIsReportedFailed ==
  \A j \in DOMAIN jobs :
    /\ Failed(j) =>
         /\ JobStatus(j) = "failed"
         /\ ~InQueue(j)
         /\ \A i \in DOMAIN store : store[i].oid # j
    /\ (JobStatus(j) = "completed" /\ jobs[j].result # <<>>) =>
         /\ jobs[j].outcome = "saved"
         /\ jobs[j].result = <<jobs[j].uuid, jobs[j].url>>

\* C16: the queue never holds a job twice nor a job that has been handed
\* over, a job that has been handed over never goes back to an earlier stage
\* nor gets a second identifier, each job has at most one record, and the
\* records are never more than the jobs.
C16_ConsumedOnce ==
  [][/\ \A q, w \in DOMAIN queue' : q # w => queue'[q] # queue'[w]
     /\ \A j \in DOMAIN jobs' :
          (jobs'[j].stage = "waiting") <=> (\E q \in DOMAIN queue' : queue'[q] = j)
     /\ \A j \in DOMAIN jobs :
          /\ StageRank(jobs'[j].stage) >= StageRank(jobs[j].stage)
          /\ jobs[j].uuid # 0 => jobs'[j].uuid = jobs[j].uuid
          /\ Cardinality({k \in DOMAIN store' : store'[k].oid = j}) <= 1
     /\ Len(store') <= Len(jobs')]_vars

C16_Witness ==
  /\ Len(jobs) = 2
  /\ jobs[1].stage = "done" /\ jobs[2].stage = "done"
  /\ jobs[1].outcome = "saved" /\ jobs[2].outcome = "saved"
  /\ store[1].oid = 2

\* C17: every job the queue has handed over eventually reaches its end, so a
\* job never keeps its processor slot for ever.
C17_EveryJobEnds ==
  \A j \in JobIds :
    (j \in DOMAIN jobs /\ jobs[j].stage # "waiting")
      ~> (j \in DOMAIN jobs /\ jobs[j].stage = "done")

\* C18: a stored record keeps its id and imageURL in every step, and the
\* update step of an activate request leaves the number of records and every
\* record with another id as they were.
C18_ActivateFrame ==
  [][/\ \A i \in DOMAIN store : \A k \in DOMAIN store' :
          store'[k].oid = store[i].oid
            => store'[k].uuid = store[i].uuid /\ store'[k].s3URL = store[i].s3URL
     /\ \A a \in ActReqs :
          (actPc[a] = "updateOne" /\ actResp'[a] = 200)
            => /\ Len(store') = Len(store)
               /\ \A i \in DOMAIN store :
                    /\ store'[i].oid = store[i].oid
                    /\ store[i].uuid # actBody[a].id => store'[i] = store[i]]_vars

C18_Witness ==
  \E a \in ActReqs :
    /\ actResp[a] = 200
    /\ Len(store) = 2
    /\ \E i, k \in DOMAIN store :
         /\ store[i].uuid = actBody[a].id /\ store[i].accountNumber = "B"
         /\ store[k].uuid # actBody[a].id /\ AllEmpty(store[k])

\* C19: when an activate request answers 200, its update step has left in the
\* store a record with the request's id, isActivated true and the request's
\* firstName, lastName and accountNumber.
C19_SuccessMeansModified ==
  [][\A a \in ActReqs :
       (actPc[a] = "updateOne" /\ actResp'[a] = 200)
         => \E k \in DOMAIN store' :
              /\ store'[k].uuid = actBody[a].id
              /\ store'[k].isActivated
              /\ store'[k].firstName = actBody[a].firstName
              /\ store'[k].lastName = actBody[a].lastName
              /\ store'[k].accountNumber = actBody[a].accountNumber]_vars

\* C20: the number in the response message of a POST /generateQR request is the
\* number of jobs the request added to the queue.
C20_MessageCountsJobs ==
  \A r \in GenReqs :
    genPc[r] = "done" => genMsg[r] = <<JobsAddedBy(r)>>

====
